---- MODULE Spec2Model ----
(***************************************************************************)
(* Model of streamlit_app.py: the marine-pollution dashboard script.       *)
(*                                                                         *)
(* One run of the script is load_data (cached), the sidebar widgets, the   *)
(* call of filter_dataframe and the rendering of metrics, charts, table    *)
(* and CSV export.  A change of a widget reruns the script from the top.   *)
(*                                                                         *)
(* Text is a sequence of one-character strings, so that strip, lower,      *)
(* replace and title act on characters as the Python string methods do.    *)
(* A cell of a table is a record tagged with its kind: null (NaN/NaT/None),*)
(* text, num or ts (a Timestamp: calendar day and time of day).            *)
(***************************************************************************)
EXTENDS Integers, Sequences, FiniteSets, TLC

VARIABLES
    file,               \* the workbook on disk: status, columns, rows
    cache,              \* st.cache_data entry of load_data: None or a table
    pc,                 \* position of the running script
    heap,               \* the DataFrame objects of this run, by identity
    df,                 \* identity of the canonical table (line 69)
    filtered_df,        \* identity of the filtered view (line 127)
    selected_country,   \* line 95
    selected_pollution_type,  \* line 96
    selected_dates,     \* lines 87-93
    start_date_filter,  \* lines 99-107
    end_date_filter,
    data_for_bar_chart, \* lines 158-168
    shown_columns,      \* columns handed to st.dataframe (line 233)
    csv,                \* the exported text (line 234)
    rendered            \* what this run has put on the page

vars == <<file, cache, pc, heap, df, filtered_df, selected_country,
          selected_pollution_type, selected_dates, start_date_filter,
          end_date_filter, data_for_bar_chart, shown_columns, csv, rendered>>

-----------------------------------------------------------------------------
(* Bounds *)

MaxRows == 2        \* rows of a workbook
MaxDay == 3         \* latest day the clock (date.today) may show
MaxLen == 3         \* length of an enumerated pollution_type source text

-----------------------------------------------------------------------------
(* Cells *)

None == [k |-> "none"]
Null == [k |-> "null"]
Text(s) == [k |-> "text", s |-> s]
Num(n) == [k |-> "num", n |-> n]
Timestamp(d, t) == [k |-> "ts", day |-> d, time |-> t]

IsNull(c) == c.k = "null"

-----------------------------------------------------------------------------
(* Python string methods, on sequences of characters *)

UpperLetters == <<"A","B","C","D","E","F","G","H","I","J","K","L","M",
                  "N","O","P","Q","R","S","T","U","V","W","X","Y","Z">>
LowerLetters == <<"a","b","c","d","e","f","g","h","i","j","k","l","m",
                  "n","o","p","q","r","s","t","u","v","w","x","y","z">>

IsUpper(c) == \E i \in 1..26 : UpperLetters[i] = c
IsLower(c) == \E i \in 1..26 : LowerLetters[i] = c
IsCased(c) == IsUpper(c) \/ IsLower(c)
IsSpace(c) == c \in {" ", "\t", "\n", "\r"}

LowerChar(c) ==
    IF IsUpper(c) THEN LowerLetters[CHOOSE i \in 1..26 : UpperLetters[i] = c]
    ELSE c

UpperChar(c) ==
    IF IsLower(c) THEN UpperLetters[CHOOSE i \in 1..26 : LowerLetters[i] = c]
    ELSE c

\* str.lower()
StrLower(s) == [i \in 1..Len(s) |-> LowerChar(s[i])]

\* str.title(): a cased character is upper-cased when it follows an uncased
\* character (or starts the text) and lower-cased otherwise.
StrTitle(s) ==
    [i \in 1..Len(s) |->
        IF i = 1 \/ ~IsCased(s[i-1]) THEN UpperChar(s[i]) ELSE LowerChar(s[i])]

RECURSIVE LStrip(_)
LStrip(s) == IF s # <<>> /\ IsSpace(Head(s)) THEN LStrip(Tail(s)) ELSE s

RECURSIVE RStrip(_)
RStrip(s) ==
    IF s # <<>> /\ IsSpace(s[Len(s)]) THEN RStrip(SubSeq(s, 1, Len(s) - 1))
    ELSE s

\* A plausible slip: lstrip() for strip().
StrStripLeft(s) == LStrip(s)

\* str.strip()
StrStrip(s) == RStrip(LStrip(s))

Digits == <<"0","1","2","3","4","5","6","7","8","9">>

\* astype(str) of one cell of an object column: NaN prints as 'nan' (the
\* value line 30 lists for it), an integer (here one digit) as its decimal
\* digits, text as itself.
AsTypeStr(c) ==
    CASE c.k = "null" -> <<"n","a","n">>
      [] c.k = "num"  -> <<Digits[c.n + 1]>>
      [] OTHER        -> c.s

-----------------------------------------------------------------------------
(* The cleaning of pollution_type, lines 22-51 *)

TidakDiketahuiLower == <<"t","i","d","a","k"," ","d","i","k","e","t","a","h","u","i">>
TidakDiketahui == <<"T","i","d","a","k"," ","D","i","k","e","t","a","h","u","i">>
KolomHilang ==
    TidakDiketahui \o <<" ","(","K","o","l","o","m"," ","H","i","l","a","n","g",")">>

OilSpillLower == <<"o","i","l"," ","s","p","i","l","l">>
OilSpillsLower == OilSpillLower \o <<"s">>
WasteDumpedLower ==
    <<"w","a","s","t","e"," ","d","u","m","p","e","d"," ",
      "o","v","e","r","b","o","a","r","d">>
PlasticWasteLower == <<"p","l","a","s","t","i","c"," ","w","a","s","t","e">>
TumpahanMinyakLower == <<"t","u","m","p","a","h","a","n"," ","m","i","n","y","a","k">>
LimbahDibuangLower ==
    <<"l","i","m","b","a","h"," ","d","i","b","u","a","n","g"," ",
      "k","e"," ","l","a","u","t">>
LimbahPlastikLower == <<"l","i","m","b","a","h"," ","p","l","a","s","t","i","k">>

\* line 30
problematic_values ==
    { <<"n","a","n">>, <<>>, <<" ">>, <<"-">>, <<"0">>,
      <<"n","u","l","l">>, <<"n","/","a">>, <<"n","o"," ","d","a","t","a">> }

\* A plausible slip: the list loses the empty string and 'n/a'.
ReplaceProblematicShortList(s) ==
    IF s \in problematic_values \ { <<>>, <<"n","/","a">> }
    THEN TidakDiketahuiLower ELSE s

\* line 31: Series.replace(list, value), exact match of the whole text
ReplaceProblematic(s) ==
    IF s \in problematic_values THEN TidakDiketahuiLower ELSE s

\* A plausible slip: 'oil spill' is merged into the other source spelling
\* instead of the canonical label.
ReplaceSynonymsChained(s) ==
    CASE s = OilSpillLower     -> OilSpillsLower
      [] s = OilSpillsLower    -> TumpahanMinyakLower
      [] s = WasteDumpedLower  -> LimbahDibuangLower
      [] s = PlasticWasteLower -> LimbahPlastikLower
      [] OTHER                 -> s

\* lines 35-41: Series.replace(dict), exact match of the whole text
ReplaceSynonyms(s) ==
    CASE s = OilSpillLower     -> TumpahanMinyakLower
      [] s = OilSpillsLower    -> TumpahanMinyakLower
      [] s = WasteDumpedLower  -> LimbahDibuangLower
      [] s = PlasticWasteLower -> LimbahPlastikLower
      [] OTHER                 -> s

\* line 47: rows equal to 'Tidak Diketahui' are assigned 'Tidak Diketahui'
KeepSentinel(s) == IF s = TidakDiketahui THEN TidakDiketahui ELSE s

\* lines 24-47 for one cell
CleanPollutionType(c) ==
    Text(KeepSentinel(StrTitle(ReplaceSynonyms(ReplaceProblematic(
        StrLower(StrStrip(AsTypeStr(c))))))))

-----------------------------------------------------------------------------
(* Tables: the columns in order and the rows in order, each row carrying   *)
(* its pandas index label and one cell per column.                         *)

Range(s) == { s[i] : i \in DOMAIN s }

RECURSIVE SelectRows(_, _)
\* The rows of `rows` at the positions in `keep`, in their order.
SelectRows(rows, keep) ==
    IF rows = <<>> THEN <<>>
    ELSE LET rest == SelectRows(SubSeq(rows, 1, Len(rows) - 1), keep)
         IN IF Len(rows) \in keep THEN Append(rest, rows[Len(rows)]) ELSE rest

\* Boolean indexing df[mask], the mask given as the positions that are True
BoolIndex(t, mask) == [t EXCEPT !.rows = SelectRows(t.rows, mask)]

\* The column `col` of t, one cell per row
Column(t, col) == [i \in DOMAIN t.rows |-> t.rows[i].cells[col]]

\* Assignment of a whole existing column: df[col] = values
SetColumn(t, col, values) ==
    [t EXCEPT !.rows =
        [i \in DOMAIN t.rows |-> [t.rows[i] EXCEPT !.cells[col] = values[i]]]]

\* The positions of the rows whose cell in `col` is not null: the mask of
\* dropna(subset=[col])
NotNullMask(t, col) == { i \in DOMAIN t.rows : ~IsNull(t.rows[i].cells[col]) }

\* The mask of df[col] == value
EqualsMask(t, col, value) == { i \in DOMAIN t.rows : t.rows[i].cells[col] = value }

IsEmpty(t) == t.rows = <<>>

-----------------------------------------------------------------------------
(* load_data, lines 9-65 *)

\* The texts pandas' reader turns into NaN by default (keep_default_na).
DefaultNaTexts ==
    { <<>>, <<"N","/","A">>, <<"N","A">>, <<"N","U","L","L">>, <<"N","a","N">>,
      <<"n","/","a">>, <<"n","a","n">>, <<"n","u","l","l">> }

ReadCell(c) == IF c.k = "text" /\ c.s \in DefaultNaTexts THEN Null ELSE c

\* line 11: pd.read_excel gives a RangeIndex 0..n-1 and the sheet's columns
ReadExcel(f) ==
    [cols |-> f.cols,
     rows |-> [i \in DOMAIN f.rows |->
                 [idx |-> i - 1,
                  cells |-> [c \in Range(f.cols) |-> ReadCell(f.rows[i][c])]]]]

\* line 13: pd.to_datetime(errors='coerce') of one cell. The source cells
\* of inc_date are dates, blanks or text that is no date.
ToDatetime(c) == IF c.k = "ts" THEN c ELSE Null

\* line 14: pd.to_numeric(errors='coerce') of one cell. The source cells
\* of pollution_qty are numbers, blanks or text that is no number.
ToNumeric(c) == IF c.k = "num" THEN c ELSE Null

\* line 16: col.startswith("Note"), over the column names of the model
StartsWithNote(col) == col \in {"Note", "Note_1"}

\* line 17: df.drop(columns=note_cols)
DropNoteCols(t) ==
    LET keep == { c \in Range(t.cols) : ~StartsWithNote(c) }
    IN [cols |-> SelectSeq(t.cols, LAMBDA c : ~StartsWithNote(c)),
        rows |-> [i \in DOMAIN t.rows |->
                    [t.rows[i] EXCEPT !.cells = [c \in keep |-> @[c]]]]]

\* line 19: df.dropna(subset=['LAT_1', 'LONG'])
DropNaCoords(t) ==
    BoolIndex(t, NotNullMask(t, "LAT_1") \cap NotNullMask(t, "LONG"))

\* lines 22-51
CleanTypeColumn(t) ==
    IF "pollution_type" \in Range(t.cols)
    THEN SetColumn(t, "pollution_type",
                   [i \in DOMAIN t.rows |->
                       CleanPollutionType(Column(t, "pollution_type")[i])])
    ELSE [cols |-> Append(t.cols, "pollution_type"),
          rows |-> [i \in DOMAIN t.rows |->
                      [t.rows[i] EXCEPT !.cells =
                          [c \in Range(t.cols) \cup {"pollution_type"} |->
                              IF c = "pollution_type" THEN Text(KolomHilang)
                              ELSE @[c]]]]]

\* The columns lines 13-19 index by name: a sheet without one raises KeyError.
LoadColumns == {"inc_date", "pollution_qty", "LAT_1", "LONG"}

\* Whether the try block of load_data raises (other than FileNotFoundError)
LoadRaises(f) == f.status = "unreadable" \/ ~(LoadColumns \subseteq Range(f.cols))

\* lines 11-59, the value load_data returns
LoadTable(f) ==
    LET read == ReadExcel(f)
        dated == SetColumn(read, "inc_date",
                     [i \in DOMAIN read.rows |-> ToDatetime(Column(read, "inc_date")[i])])
        numbered == SetColumn(dated, "pollution_qty",
                     [i \in DOMAIN dated.rows |->
                         ToNumeric(Column(dated, "pollution_qty")[i])])
    IN CleanTypeColumn(DropNaCoords(DropNoteCols(numbered)))

-----------------------------------------------------------------------------
(* The sidebar, lines 71-107 *)

\* Python truthiness of an argument that is None, text or a Timestamp
Truthy(x) == x.k # "none" /\ ~(x.k = "text" /\ x.s = <<>>)

\* df[col].dropna().unique()
UniqueNonNull(t, col) ==
    { t.rows[i].cells[col] : i \in DOMAIN t.rows } \ {Null}

SetMin(S) == CHOOSE x \in S : \A y \in S : x <= y
SetMax(S) == CHOOSE x \in S : \A y \in S : y <= x

\* datetime.date(1900, 1, 1), the day before the first day of the model
FallbackMinDay == 0

KnownDays(t) == { c.day : c \in UniqueNonNull(t, "inc_date") }

\* lines 79-84, with `today` the value of datetime.date.today()
PickerRange(t, today) ==
    IF KnownDays(t) # {}
    THEN <<SetMin(KnownDays(t)), SetMax(KnownDays(t))>>
    ELSE <<FallbackMinDay, today>>

\* lines 87-93: an inverted picker range collapses to the single day at its
\* end; otherwise the widget's value stands
SelectedDates(min_date, max_date, widget) ==
    IF min_date > max_date THEN <<max_date, max_date>> ELSE widget

\* What st.sidebar.date_input may return for a range: a tuple of no, one or
\* two dates between min_value and max_value. The script does not order the
\* two dates itself, so both orders are taken.
DateInputValues(min_date, max_date) ==
    UNION { [1..n -> min_date..max_date] : n \in 0..2 }

\* pd.Timestamp(date): midnight of that day
TimestampOfDate(d) == Timestamp(d, 0)

\* lines 99-107
DateFilters(dates) ==
    CASE Len(dates) = 2 -> <<TimestampOfDate(dates[1]), TimestampOfDate(dates[2])>>
      [] Len(dates) = 1 -> <<TimestampOfDate(dates[1]), TimestampOfDate(dates[1])>>
      [] OTHER          -> <<None, None>>

-----------------------------------------------------------------------------
(* filter_dataframe, lines 109-125 *)

\* Timestamp.date() and Series.dt.date: the calendar day, time of day dropped
DateOf(ts) == ts.day

\* A plausible slip: the comparison keeps the time of day.
InDateRangeWithTime(ts, start_date, end_date) ==
    /\ (ts.day > start_date.day
            \/ (ts.day = start_date.day /\ ts.time >= start_date.time))
    /\ (ts.day < end_date.day
            \/ (ts.day = end_date.day /\ ts.time <= end_date.time))

\* line 123: the mask of the date filter
InDateRange(ts, start_date, end_date) ==
    DateOf(ts) >= DateOf(start_date) /\ DateOf(ts) <= DateOf(end_date)

\* line 123: the mask of the date filter over dff_temp
DateMask(t, start_date, end_date) ==
    { i \in DOMAIN t.rows : InDateRange(t.rows[i].cells["inc_date"], start_date, end_date) }

\* A plausible slip: `elif ptype` for `if ptype`.
FilterTableElif(t, country, ptype, start_date, end_date) ==
    LET byCountry ==
            IF Truthy(country)
            THEN BoolIndex(t, EqualsMask(t, "Country", country))
            ELSE IF Truthy(ptype)
            THEN BoolIndex(t, EqualsMask(t, "pollution_type", ptype))
            ELSE t
        dff_temp == BoolIndex(byCountry, NotNullMask(byCountry, "inc_date"))
    IN  IF Truthy(start_date) /\ Truthy(end_date)
        THEN BoolIndex(dff_temp, DateMask(dff_temp, start_date, end_date))
        ELSE byCountry

\* lines 110-125: the table filter_dataframe returns
FilterTable(t, country, ptype, start_date, end_date) ==
    LET byCountry ==
            IF Truthy(country)
            THEN BoolIndex(t, EqualsMask(t, "Country", country))
            ELSE t
        byType ==
            IF Truthy(ptype)
            THEN BoolIndex(byCountry, EqualsMask(byCountry, "pollution_type", ptype))
            ELSE byCountry
        dff_temp == BoolIndex(byType, NotNullMask(byType, "inc_date"))
    IN  IF Truthy(start_date) /\ Truthy(end_date)
        THEN BoolIndex(dff_temp, DateMask(dff_temp, start_date, end_date))
        ELSE byType

\* A plausible slip: no copy, and the rows are dropped in place.
FilterDataframeInPlace(h, data_frame, country, ptype, start_date, end_date) ==
    [heap |-> [h EXCEPT ![data_frame] =
                  FilterTable(h[data_frame], country, ptype, start_date, end_date)],
     ret  |-> data_frame]

\* filter_dataframe on the objects: data_frame.copy() is a new object, and
\* the result is a new object; data_frame itself is not written.
FilterDataframe(h, data_frame, country, ptype, start_date, end_date) ==
    [heap |-> Append(h, FilterTable(h[data_frame], country, ptype,
                                    start_date, end_date)),
     ret  |-> Len(h) + 1]

-----------------------------------------------------------------------------
(* Rendering, lines 131-241 *)

\* line 233: the columns of the table on the page
DetailColumns == <<"Country", "inc_date", "pollution_type", "material", "LAT_1", "LONG">>

\* A plausible slip: the export takes the columns of the table on the page.
ToCsvDetailColumns(t) ==
    [header |-> DetailColumns,
     rows   |-> [i \in DOMAIN t.rows |->
                   [j \in DOMAIN DetailColumns |-> t.rows[i].cells[DetailColumns[j]]]]]

\* line 234: DataFrame.to_csv(index=False): a header of all the columns and
\* one record per row, the index left out. Fields are kept as cells; their
\* encoding as text is not modelled.
ToCsv(t) ==
    [header |-> t.cols,
     rows   |-> [i \in DOMAIN t.rows |->
                   [j \in DOMAIN t.cols |-> t.rows[i].cells[t.cols[j]]]]]

\* lines 158-168: the object the bar chart counts: 0 stands for the new
\* empty DataFrame of line 168
BarChartData(h, canonical, filtered) ==
    IF IsEmpty(h[filtered])
    THEN IF ~IsEmpty(h[canonical]) THEN canonical ELSE 0
    ELSE filtered

\* What lines 131-241 put on the page
Page(h, canonical, filtered) ==
    LET f == h[filtered]
        bar == BarChartData(h, canonical, filtered)
        trendRows == BoolIndex(f, NotNullMask(f, "inc_date"))
        aware == IF "aware_ans" \in Range(f.cols)
                 THEN UniqueNonNull(f, "aware_ans") ELSE {}
    IN  (IF ~IsEmpty(h[canonical]) THEN {"metrics"} ELSE {})
        \cup (IF ~IsEmpty(f) THEN {"map"} ELSE {"info_map"})
        \cup (IF IsEmpty(f) /\ ~IsEmpty(h[canonical]) THEN {"warning_all_data"} ELSE {})
        \cup (IF bar # 0 THEN {"bar"} ELSE {"info_bar"})
        \cup (IF ~IsEmpty(f) /\ ~IsEmpty(trendRows) THEN {"trend"} ELSE {"info_trend"})
        \cup (IF ~IsEmpty(f) /\ aware # {} THEN {"pie"} ELSE {"info_pie"})
        \cup (IF ~IsEmpty(f) THEN {"table", "download"} ELSE {"info_table"})

-----------------------------------------------------------------------------
(* The workbooks the script is run on *)

FullCols ==
    <<"inc_date", "pollution_qty", "LAT_1", "LONG", "Country",
      "pollution_type", "material", "aware_ans", "Note_1">>

\* A sheet without the optional columns: no pollution_type, no aware_ans
NoTypeCols == <<"inc_date", "pollution_qty", "LAT_1", "LONG", "Country", "material">>

\* A sheet not in the expected shape: no inc_date
NoDateCols == <<"pollution_qty", "LAT_1", "LONG", "Country", "pollution_type", "material">>

ID == <<"I","D">>
MY == <<"M","Y">>
Junk == <<"?">>

SourceRow(country, date, qty, ptype, lat, long, aware) ==
    [inc_date |-> date, pollution_qty |-> qty, LAT_1 |-> lat, LONG |-> long,
     Country |-> country, pollution_type |-> ptype,
     material |-> Text(<<"o","i","l">>), aware_ans |-> aware,
     Note_1 |-> Text(<<"s","e","e"," ","l","o","g">>)]

\* The rows a workbook is made of: known and unknown countries, dates with
\* and without a time of day, unparseable dates and quantities, clean,
\* padded, synonym, noise and blank categories, and missing or non-numeric
\* coordinates.
SourceRows ==
    { SourceRow(Text(ID), Timestamp(1, 0), Num(3), Text(OilSpillLower),
                Num(5), Num(7), Text(<<"Y">>)),
      SourceRow(Text(ID), Timestamp(2, 1), Text(Junk),
                Text(<<" ","O","i","l"," ","S","p","i","l","l","s">>),
                Num(5), Num(7), Null),
      SourceRow(Text(MY), Timestamp(2, 0), Num(3), Text(<<" ","-"," ">>),
                Num(5), Num(7), Text(<<"N">>)),
      SourceRow(Text(MY), Text(Junk), Num(3), Text(OilSpillLower),
                Num(5), Num(7), Text(<<"Y">>)),
      SourceRow(Null, Timestamp(3, 1), Null, Null, Num(5), Num(7), Null),
      SourceRow(Text(ID), Timestamp(1, 0), Num(3), Text(OilSpillLower),
                Null, Num(7), Text(<<"Y">>)),
      SourceRow(Text(MY), Timestamp(3, 0), Num(3), Text(OilSpillLower),
                Num(5), Null, Text(<<"Y">>)),
      SourceRow(Text(MY), Timestamp(1, 1), Num(3), Null,
                Text(Junk), Num(7), Null) }

SeqsUpTo(S, n) == UNION { [1..k -> S] : k \in 0..n }

Workbook(status, cols, rows) ==
    [status |-> status, cols |-> cols,
     rows |-> [i \in DOMAIN rows |-> [c \in Range(cols) |-> rows[i][c]]]]

Workbooks ==
    { Workbook("ok", cols, rows) :
        cols \in {FullCols, NoTypeCols}, rows \in SeqsUpTo(SourceRows, MaxRows) }
    \cup { Workbook("ok", NoDateCols, rows) : rows \in SeqsUpTo(SourceRows, 1) }
    \cup { Workbook(status, <<>>, <<>>) : status \in {"missing", "unreadable"} }

\* The characters an enumerated pollution_type source text is made of
TypeAlphabet == {"n", "a", "N", "A", " ", "-", "0", "/"}

\* Source cells of pollution_type for the check of the cleaning alone
TypeCells ==
    { Text(s) : s \in SeqsUpTo(TypeAlphabet, MaxLen) }
    \cup { Text(s) : s \in
            { OilSpillLower, OilSpillsLower,
              <<"O","i","l"," ","S","p","i","l","l","s">>,
              <<" ","O","I","L"," ","S","P","I","L","L"," ">>,
              WasteDumpedLower, PlasticWasteLower,
              <<"n","u","l","l">>, <<"N","u","l","l"," ">>,
              <<"n","o"," ","d","a","t","a">>, <<"N","O"," ","D","A","T","A">>,
              TidakDiketahui, TumpahanMinyakLower, KolomHilang,
              <<"i","t","'","s"," ","3","d">> } }
    \cup { Null, Num(0), Num(7) }

TypeWorkbooks ==
    { Workbook("ok", FullCols,
               << SourceRow(Text(ID), Timestamp(1, 0), Num(3), c,
                            Num(5), Num(7), Null) >>) : c \in TypeCells }
    \cup { Workbook("ok", NoTypeCols,
               << SourceRow(Text(ID), Timestamp(1, 0), Num(3), Null,
                            Num(5), Num(7), Null) >>) }

-----------------------------------------------------------------------------
(* The script *)

\* The state of a run before its first line
RunStart ==
    /\ pc = "load"
    /\ heap = <<>>
    /\ df = 0
    /\ filtered_df = 0
    /\ selected_country = None
    /\ selected_pollution_type = None
    /\ selected_dates = <<>>
    /\ start_date_filter = None
    /\ end_date_filter = None
    /\ data_for_bar_chart = 0
    /\ shown_columns = <<>>
    /\ csv = None
    /\ rendered = {}

Init ==
    /\ file \in Workbooks
    /\ cache = None
    /\ RunStart

\* A plausible slip: the handler reports the error and lets the script go on.
AfterLoadErrorContinue == "sidebar"

\* lines 62 and 65: st.stop() ends the run
AfterLoadError == "halted"

\* lines 60-62: the file is not there
LoadFileNotFound ==
    /\ pc = "load" /\ cache = None
    /\ file.status = "missing"
    /\ rendered' = rendered \cup {"error_file_not_found"}
    /\ pc' = AfterLoadError
    /\ UNCHANGED <<file, cache, heap, df, filtered_df, selected_country,
                   selected_pollution_type, selected_dates, start_date_filter,
                   end_date_filter, data_for_bar_chart, shown_columns, csv>>

\* lines 63-65: the workbook cannot be read as expected
LoadException ==
    /\ pc = "load" /\ cache = None
    /\ file.status # "missing" /\ LoadRaises(file)
    /\ rendered' = rendered \cup {"error_load"}
    /\ pc' = AfterLoadError
    /\ UNCHANGED <<file, cache, heap, df, filtered_df, selected_country,
                   selected_pollution_type, selected_dates, start_date_filter,
                   end_date_filter, data_for_bar_chart, shown_columns, csv>>

\* lines 9-59 and 69: load_data runs, its value is cached and bound to df
LoadData ==
    /\ pc = "load" /\ cache = None
    /\ file.status = "ok" /\ ~LoadRaises(file)
    /\ cache' = LoadTable(file)
    /\ heap' = <<LoadTable(file)>>
    /\ df' = 1
    /\ pc' = "sidebar"
    /\ UNCHANGED <<file, filtered_df, selected_country, selected_pollution_type,
                   selected_dates, start_date_filter, end_date_filter,
                   data_for_bar_chart, shown_columns, csv, rendered>>

\* lines 8 and 69: a later run gets a copy of the cached value
LoadCached ==
    /\ pc = "load" /\ cache # None
    /\ heap' = <<cache>>
    /\ df' = 1
    /\ pc' = "sidebar"
    /\ UNCHANGED <<file, cache, filtered_df, selected_country,
                   selected_pollution_type, selected_dates, start_date_filter,
                   end_date_filter, data_for_bar_chart, shown_columns, csv, rendered>>

\* lines 71-107: the title and the three filter controls
Sidebar ==
    /\ pc = "sidebar" /\ df > 0
    /\ \E today \in 1..MaxDay :
         LET range == PickerRange(heap[df], today)
         IN \E widget \in DateInputValues(range[1], range[2]) :
              /\ selected_dates' = SelectedDates(range[1], range[2], widget)
              /\ start_date_filter' = DateFilters(selected_dates')[1]
              /\ end_date_filter' = DateFilters(selected_dates')[2]
    /\ selected_country' \in {None} \cup UniqueNonNull(heap[df], "Country")
    /\ selected_pollution_type' \in {None} \cup UniqueNonNull(heap[df], "pollution_type")
    /\ rendered' = rendered \cup {"title", "sidebar"}
    /\ pc' = "filter"
    /\ UNCHANGED <<file, cache, heap, df, filtered_df, data_for_bar_chart,
                   shown_columns, csv>>

\* line 127
Filter ==
    /\ pc = "filter"
    /\ LET res == FilterDataframe(heap, df, selected_country, selected_pollution_type,
                                  start_date_filter, end_date_filter)
       IN /\ heap' = res.heap
          /\ filtered_df' = res.ret
    /\ pc' = "render"
    /\ UNCHANGED <<file, cache, df, selected_country, selected_pollution_type,
                   selected_dates, start_date_filter, end_date_filter,
                   data_for_bar_chart, shown_columns, csv, rendered>>

\* lines 129-241: metrics, map, bar chart, trend, pie, table and export
Render ==
    /\ pc = "render"
    /\ data_for_bar_chart' = BarChartData(heap, df, filtered_df)
    /\ rendered' = rendered \cup Page(heap, df, filtered_df)
    /\ IF ~IsEmpty(heap[filtered_df])
       THEN /\ shown_columns' = DetailColumns
            /\ csv' = ToCsv(heap[filtered_df])
       ELSE UNCHANGED <<shown_columns, csv>>
    /\ pc' = "done"
    /\ UNCHANGED <<file, cache, heap, df, filtered_df, selected_country,
                   selected_pollution_type, selected_dates, start_date_filter,
                   end_date_filter>>

\* A widget changes (or the page is reloaded): the script runs again from
\* the top; only the cache outlives the run
Rerun ==
    /\ pc \in {"done", "halted"}
    /\ pc' = "load"
    /\ heap' = <<>>
    /\ df' = 0
    /\ filtered_df' = 0
    /\ selected_country' = None
    /\ selected_pollution_type' = None
    /\ selected_dates' = <<>>
    /\ start_date_filter' = None
    /\ end_date_filter' = None
    /\ data_for_bar_chart' = 0
    /\ shown_columns' = <<>>
    /\ csv' = None
    /\ rendered' = {}
    /\ UNCHANGED <<file, cache>>

Next ==
    \/ LoadFileNotFound
    \/ LoadException
    \/ LoadData
    \/ LoadCached
    \/ Sidebar
    \/ Filter
    \/ Render
    \/ Rerun

Spec == Init /\ [][Next]_vars

\* load_data alone, on one-row workbooks whose pollution_type cell ranges
\* over TypeCells
TypeInit ==
    /\ file \in TypeWorkbooks
    /\ cache = None
    /\ RunStart

TypeSpec == TypeInit /\ [][LoadData]_vars

-----------------------------------------------------------------------------
(* Properties *)

Canonical == heap[df]
Filtered == heap[filtered_df]

CountryActive == selected_country # None
TypeActive == selected_pollution_type # None
DateActive == start_date_filter # None /\ end_date_filter # None

RowIn(t, r) == \E j \in DOMAIN t.rows : t.rows[j] = r

MatchesCountry(r) == ~CountryActive \/ r.cells["Country"] = selected_country
MatchesType(r) == ~TypeActive \/ r.cells["pollution_type"] = selected_pollution_type
MatchesDate(r) ==
    ~DateActive
    \/ (/\ r.cells["inc_date"].k = "ts"
        /\ start_date_filter.day <= r.cells["inc_date"].day
        /\ r.cells["inc_date"].day <= end_date_filter.day)
MatchesAll(r) == MatchesCountry(r) /\ MatchesType(r) /\ MatchesDate(r)

\* C1: for every canonical table and every combination of the three
\* predicates, each absent or present, filter_dataframe returns exactly the
\* rows of the canonical table that satisfy all active predicates, in the
\* canonical table's order; an absent predicate excludes no row, and with
\* all three absent the result is the whole canonical table.
C1_FilterReturnsMatchingRows ==
    filtered_df > 0 =>
        /\ Filtered.cols = Canonical.cols
        /\ Filtered.rows = SelectSeq(Canonical.rows, MatchesAll)
        /\ (~CountryActive /\ ~TypeActive /\ ~DateActive => Filtered = Canonical)

\* C1 witness: all three predicates are present and keep one row of two.
C1_Witness ==
    /\ filtered_df > 0
    /\ CountryActive /\ TypeActive /\ DateActive
    /\ Len(Canonical.rows) = 2
    /\ Len(Filtered.rows) = 1

\* C2: with a date range [start, end] active, a row is in the result exactly
\* when it passes the other predicates, its incident date is known and its
\* calendar day d (time of day ignored) has start <= d <= end, so that
\* [D, D] returns exactly the rows dated D; a row with an unknown date is
\* excluded whenever the date predicate is active and is included, subject
\* to the other predicates, whenever it is not.
C2_DatePredicate ==
    filtered_df > 0 =>
        IF DateActive
        THEN /\ \A i \in DOMAIN Canonical.rows :
                    LET r == Canonical.rows[i]
                    IN RowIn(Filtered, r) <=>
                         /\ MatchesCountry(r) /\ MatchesType(r)
                         /\ ~IsNull(r.cells["inc_date"])
                         /\ r.cells["inc_date"].day >= start_date_filter.day
                         /\ r.cells["inc_date"].day <= end_date_filter.day
             /\ (start_date_filter.day = end_date_filter.day =>
                    \A j \in DOMAIN Filtered.rows :
                        /\ Filtered.rows[j].cells["inc_date"].k = "ts"
                        /\ Filtered.rows[j].cells["inc_date"].day = start_date_filter.day)
        ELSE \A i \in DOMAIN Canonical.rows :
                    LET r == Canonical.rows[i]
                    IN IsNull(r.cells["inc_date"]) /\ MatchesCountry(r) /\ MatchesType(r)
                         => RowIn(Filtered, r)

\* C2 witness: the range [2, 2] keeps a row dated day 2 with a time of day
\* and drops a row whose date is unknown.
C2_Witness ==
    /\ filtered_df > 0
    /\ DateActive
    /\ start_date_filter.day = 2 /\ end_date_filter.day = 2
    /\ \E j \in DOMAIN Filtered.rows : Filtered.rows[j].cells["inc_date"] = Timestamp(2, 1)
    /\ \E i \in DOMAIN Canonical.rows :
            /\ IsNull(Canonical.rows[i].cells["inc_date"])
            /\ ~RowIn(Filtered, Canonical.rows[i])

-----------------------------------------------------------------------------
(* The cleaning of pollution_type, on the one-row workbooks of TypeSpec *)

HasTypeColumn == "pollution_type" \in Range(file.cols)
RawType == file.rows[1]["pollution_type"]
CleanType == cache.rows[1].cells["pollution_type"]
Loaded == cache # None

TumpahanMinyak == <<"T","u","m","p","a","h","a","n"," ","M","i","n","y","a","k">>
Unknown == <<"U","n","k","n","o","w","n">>

NoiseTokens ==
    { <<>>, <<"-">>, <<"0">>, <<"n","u","l","l">>, <<"n","/","a">>,
      <<"n","o"," ","d","a","t","a">> }

\* A noise token in any letter case, a null, a blank, or the number zero
IsNoiseOrBlank(c) ==
    \/ c = Null
    \/ c = Num(0)
    \/ (c.k = "text" /\ StrLower(c.s) \in NoiseTokens)
    \/ (c.k = "text" /\ \A i \in DOMAIN c.s : IsSpace(c.s[i]))

NormalizesTo(sentinel) ==
    Loaded /\ HasTypeColumn =>
        /\ (RawType = Text(OilSpillLower) => CleanType = Text(TumpahanMinyak))
        /\ (RawType = Text(<<"O","i","l"," ","S","p","i","l","l","s">>)
                => CleanType = Text(TumpahanMinyak))
        /\ (RawType = Text(<<"-">>) => CleanType = Text(sentinel))
        /\ (RawType = Null => CleanType = Text(sentinel))
        /\ (IsNoiseOrBlank(RawType) => CleanType = Text(sentinel))

\* C3 as stated: "oil spill" and "Oil Spills" become "Tumpahan Minyak", and
\* "-", null and every noise token or blank become the literal "Unknown".
C3_SentinelIsUnknown == NormalizesTo(Unknown)

\* C3 as amended: "oil spill" and "Oil Spills" become "Tumpahan Minyak", and
\* "-", null and every noise token or blank become the literal
\* "Tidak Diketahui".
C3_SentinelIsTidakDiketahui == NormalizesTo(TidakDiketahui)

\* C3 witness: a dash has been loaded and cleaned to the sentinel.
C3_Witness ==
    /\ Loaded /\ HasTypeColumn
    /\ RawType = Text(<<"-">>)
    /\ CleanType = Text(TidakDiketahui)

\* C4: every row of the table load_data returns has a pollution_type that
\* is text, non-empty, not only whitespace and without leading or trailing
\* whitespace, whatever the source cell held; when the column is absent
\* from the source every row carries the missing-column sentinel, which
\* differs from the sentinel of a noise value.
C4_TypeNeverBlank ==
    Loaded =>
        \A i \in DOMAIN cache.rows :
            LET c == cache.rows[i].cells["pollution_type"]
            IN /\ c.k = "text"
               /\ c.s # <<>>
               /\ \E j \in DOMAIN c.s : ~IsSpace(c.s[j])
               /\ ~IsSpace(c.s[1]) /\ ~IsSpace(c.s[Len(c.s)])
               /\ (~HasTypeColumn => c = Text(KolomHilang) /\ c # Text(TidakDiketahui))

\* C4 witness: a whitespace-only cell has been loaded.
C4_Witness ==
    /\ Loaded /\ HasTypeColumn
    /\ RawType = Text(<<" ", " ">>)
    /\ Len(cache.rows) = 1

\* C9: cleaning is idempotent: applying lines 24-47 to a value they have
\* output gives that value again.
C9_CleanIdempotent ==
    Loaded /\ HasTypeColumn =>
        \A i \in DOMAIN cache.rows :
            CleanPollutionType(cache.rows[i].cells["pollution_type"])
                = cache.rows[i].cells["pollution_type"]

\* C9 witness: a padded upper-case synonym has been cleaned to a label that
\* differs from the source text.
C9_Witness ==
    /\ Loaded /\ HasTypeColumn
    /\ RawType = Text(<<" ","O","I","L"," ","S","P","I","L","L"," ">>)
    /\ CleanType = Text(TumpahanMinyak)

-----------------------------------------------------------------------------
(* The loader as a whole, the run and the export *)

IsNumber(c) == c.k = "num"

\* The index labels of the source rows whose coordinates are both numbers
NumericCoordLabels ==
    { i - 1 : i \in { j \in DOMAIN file.rows :
                        IsNumber(file.rows[j]["LAT_1"]) /\ IsNumber(file.rows[j]["LONG"]) } }

\* C5: in the table load_data returns, LAT_1 and LONG of every row are
\* present and numeric: every source row in which either coordinate is
\* missing or is no valid number is excluded, and no other row is.
C5_CoordinatesNumeric ==
    Loaded =>
        /\ \A i \in DOMAIN cache.rows :
              IsNumber(cache.rows[i].cells["LAT_1"]) /\ IsNumber(cache.rows[i].cells["LONG"])
        /\ { cache.rows[i].idx : i \in DOMAIN cache.rows } = NumericCoordLabels

LoadErrors == {"error_file_not_found", "error_load"}

\* C6: when load_data cannot read the source (file missing, workbook
\* unreadable or not in the expected shape) the run halts: an error message
\* is on the page and nothing else is, no table exists, nothing is filtered
\* or exported; and a workbook that can be read in the expected shape never
\* halts the run, whatever its rows hold: an unparseable date or quantity
\* is loaded as unknown and the category as text.
C6_LoadFailureHalts ==
    /\ (file.status # "ok" \/ ~(LoadColumns \subseteq Range(file.cols)) =>
            /\ pc \in {"load", "halted"}
            /\ cache = None /\ heap = <<>> /\ df = 0 /\ filtered_df = 0 /\ csv = None
            /\ rendered \subseteq LoadErrors)
    /\ (rendered \cap LoadErrors # {} => pc = "halted" /\ rendered \subseteq LoadErrors)
    /\ (pc = "halted" => rendered \cap LoadErrors # {})
    /\ (file.status = "ok" /\ LoadColumns \subseteq Range(file.cols) => pc # "halted")
    /\ (Loaded =>
            \A i \in DOMAIN cache.rows :
                /\ cache.rows[i].cells["inc_date"].k \in {"ts", "null"}
                /\ cache.rows[i].cells["pollution_qty"].k \in {"num", "null"}
                /\ cache.rows[i].cells["pollution_type"].k = "text")

\* C6 witness: a workbook without the inc_date column has halted the run
\* with the error on the page.
C6_Witness ==
    /\ pc = "halted"
    /\ file.status = "ok"
    /\ rendered = {"error_load"}

\* C7: across runs and filter changes the canonical table keeps the rows,
\* row order, columns and cell values it had when load_data returned it,
\* after filter_dataframe and after the summaries, and the filtered view is
\* another object.
C7_CanonicalUnchanged ==
    df > 0 =>
        /\ Canonical = cache
        /\ Canonical = LoadTable(file)
        /\ (filtered_df > 0 => filtered_df # df)

\* C7 witness: the run is over, the filter kept nothing of a non-empty
\* table and the bar chart counted the canonical table itself.
C7_Witness ==
    /\ pc = "done"
    /\ filtered_df > 0
    /\ IsEmpty(Filtered) /\ ~IsEmpty(Canonical)
    /\ data_for_bar_chart = df

\* C8 as stated: the export has a header and one row per filtered record,
\* and its columns are limited to Country, inc_date, pollution_type,
\* material, LAT_1, LONG.
C8_ExportSixColumns ==
    csv # None =>
        /\ Len(csv.rows) = Len(Filtered.rows)
        /\ Range(csv.header) \subseteq Range(DetailColumns)

\* C8 as amended: the export has a header and one row per filtered record,
\* in the view's order, and its columns are all the columns of the canonical
\* table in their order (pollution_qty and, when the source has it,
\* aware_ans among them; no Note column); only the table on the page is
\* limited to the six columns.
C8_ExportAllColumns ==
    csv # None =>
        /\ csv.header = Canonical.cols
        /\ Len(csv.rows) = Len(Filtered.rows)
        /\ \A i \in DOMAIN csv.rows : \A j \in DOMAIN csv.header :
              csv.rows[i][j] = Filtered.rows[i].cells[csv.header[j]]
        /\ "pollution_qty" \in Range(csv.header)
        /\ ("aware_ans" \in Range(file.cols) => "aware_ans" \in Range(csv.header))
        /\ \A j \in DOMAIN csv.header : ~StartsWithNote(csv.header[j])
        /\ shown_columns = DetailColumns

\* C8 witness: two records have been exported with the aware_ans column.
C8_Witness ==
    /\ csv # None
    /\ Len(csv.rows) = 2
    /\ "aware_ans" \in Range(csv.header)

\* C10: a date range with start after end raises nothing and is treated by
\* filter_dataframe as lines 87-88 treat an inverted range: as the single
\* day at its end.
C10_OnePolicyForInvertedRange ==
    filtered_df > 0 /\ DateActive /\ start_date_filter.day > end_date_filter.day =>
        LET collapsed ==
                DateFilters(SelectedDates(start_date_filter.day, end_date_filter.day,
                                          <<start_date_filter.day, end_date_filter.day>>))
        IN Filtered = FilterTable(Canonical, selected_country, selected_pollution_type,
                                  collapsed[1], collapsed[2])

====
